---- MODULE Spec2Model ----
(***************************************************************************)
(* Model of concatVideos (src/utils/video.ts, lines 207-374): the render   *)
(* loop that plays the items of a timeline one after the other on a single *)
(* video element, paints every delivered frame on a canvas, records the    *)
(* canvas and the background track with a MediaRecorder and resolves the   *)
(* recorded blob.                                                          *)
(*                                                                         *)
(* Time is counted in ticks of half a second.  A clip's duration and an     *)
(* item's cutDuration are whole numbers of ticks; two consecutive frame    *)
(* callbacks of a playing clip are at most FrameInterval ticks of clip     *)
(* time apart.                                                             *)
(*                                                                         *)
(* Spec is a render with the default hardware flag on a runtime supporting *)
(* every mime type; CodecSpec varies the flag and the runtime, CancelSpec  *)
(* adds a caller that asks to cancel, EnvelopeSpec reads the gain envelope *)
(* of timelines of every total duration, LetterboxSpec renders a clip of   *)
(* every frame size, SessionSpec runs two calls of concatVideos side by    *)
(* side, and BatchSpec is generateBatchSequences of the planner service    *)
(* (src/unnamed/part_001), which builds the timelines.  UploadSpec is      *)
(* processUploadedFiles, PlayerSpec the preview Player                     *)
(* (src/unnamed/part_000), AppSpec the App component (src/App.tsx) with    *)
(* the renders it starts, and CallSpec adds a caller other than App.       *)
(***************************************************************************)
EXTENDS Integers, Sequences, FiniteSets, TLC

\* ---- bounds of the model -------------------------------------------------
MaxItems == 2        \* longest timeline
MaxDur == 4          \* longest clip, in ticks
MaxNegCut == 1       \* the planner's cutDuration is at least -MaxNegCut
FrameInterval == 2   \* largest clip-time gap between two frame callbacks
MaxAudioTime == 1    \* the audio clock is followed up to this value
MaxTotal == 20       \* longest total duration of the envelope specification
MaxSide == 16        \* largest videoWidth and videoHeight of a clip
MaxBgm == 2          \* most BGM files of a batch
MaxPlan == 2         \* most entries of a planner answer
MaxFiles == 2        \* most files of an upload
MaxOnEnded == 2      \* the viewer stops clicking after this many onEnded calls
MaxGens == 2         \* most calls of generateBatchSequences in flight

VARIABLES
  timeline,          \* argument: sequence of [duration, cutDuration]
  bgmFile,           \* argument: TRUE when a background track is supplied
  useGPU,            \* argument: the hardware flag
  supported,         \* the mime types MediaRecorder.isTypeSupported accepts
  cancelRequested,   \* TRUE once the caller has asked to cancel the render
  gainNode,          \* [events, time, value]: the automation events of
                     \* gainNode.gain, and the last time the gain was read
  videoSize,         \* <<videoWidth, videoHeight>> of the clips
  canvas,            \* [rect, filled, drawn]: the rectangle computed for the
                     \* clip, and what the last painted frame filled and drew
  batch,             \* the call of generateBatchSequences, see BatchIdle
  sessions,          \* two concurrent calls of concatVideos, see NoSessions
  app,               \* the state of the App component, see AppUnmounted
  upload,            \* the call of processUploadedFiles, see UploadIdle
  player,            \* the preview Player component, see PlayerUnmounted
  pc,                \* position of the async function concatVideos
  idx,               \* index of the item of the for loop (1-based)
  processedDuration, \* let processedDuration
  audioCtx,          \* [state, currentTime, edges] of the AudioContext;
                     \* edges are the connect() calls made on its nodes
  envelopeT0,        \* audio time at which the gain envelope starts
  sourceStarts,      \* number of source.start calls
  sourceStartTime,   \* audio time of the last source.start
  mediaRecorder,     \* [state, data, onstop, stopQueued, error, mimeType,
                     \*  tracks]; tracks are those of combinedStream
  chunks,            \* const chunks: sizes of the blobs pushed
  blob,              \* the resolved payload, or NoBlob
  video,             \* [src, paused, ended, currentTime, delivered,
                     \*  callback, muted] of the video element
  progress,          \* last value passed to onProgress
  ones,              \* number of onProgress(1) calls
  lastPaint,         \* [item, time] of the last frame painted (item 0: none)
  stopped,           \* items whose stop condition has fired
  loadStarted,       \* items whose source was assigned to the video element
  errorKind          \* why the call rejected, or "none"

vars == <<timeline, bgmFile, useGPU, supported, cancelRequested, gainNode,
          videoSize, canvas, batch, sessions, app, upload, player, pc, idx, processedDuration,
          audioCtx, envelopeT0, sourceStarts, sourceStartTime, mediaRecorder,
          chunks, blob, video, progress, ones, lastPaint, stopped, loadStarted,
          errorKind>>

NoBlob == <<-1>>
NoProgress == <<-1, -1>>
NoPaint == [item |-> 0, time |-> -1]

\* ---- inputs ----------------------------------------------------------------
\* The planner's entries: a clip (its duration, one of the two longest) and
\* the cutDuration the planner returned for it, any number from -MaxNegCut up.
Items ==
  { [duration |-> d, cutDuration |-> c] :
      d \in (MaxDur - 1)..MaxDur, c \in (0 - MaxNegCut)..(MaxDur + 1) }

\* const safeDuration = Math.min(item.cutDuration, clip.duration): the only
\* clamp between the planner and concatVideos.

safeDuration(c, d) == IF c < d THEN c ELSE d

\* The items generateSingleSequence can put in a timeline.
TimelineItems ==
  { [duration |-> it.duration,
     cutDuration |-> safeDuration(it.cutDuration, it.duration)] : it \in Items }

Timelines == UNION { [1..n -> TimelineItems] : n \in 0..MaxItems }

\* ---- pure helpers ----------------------------------------------------------
RECURSIVE SumCut(_, _)
SumCut(tl, n) == IF n = 0 THEN 0 ELSE SumCut(tl, n - 1) + tl[n].cutDuration

\* timeline.reduce((acc, item) => acc + item.cutDuration, 0)
totalDuration == SumCut(timeline, Len(timeline))

\* Mutant of ProgressCap100: the progress of a frame is capped at 1.
ProgressCapOne == 99 + 1

\* Math.min(currentTotal / totalDuration, 0.99) as a fraction <<n, d>>.
\* d > 0 for a number; <<0, 0>> is NaN and <<-1, 0>> is -Infinity.
\* ProgressCap100 is the cap 0.99 in hundredths.
ProgressCap100 == 99
ProgressValue(currentTotal, total) ==
  IF total > 0 THEN
    <<IF 100 * currentTotal < ProgressCap100 * total
        THEN 100 * currentTotal ELSE ProgressCap100 * total, 100 * total>>
  ELSE IF total < 0 THEN
    <<IF 100 * (0 - currentTotal) < ProgressCap100 * (0 - total)
        THEN 100 * (0 - currentTotal) ELSE ProgressCap100 * (0 - total),
      100 * (0 - total)>>
  ELSE IF currentTotal > 0 THEN <<ProgressCap100, 100>>
  ELSE IF currentTotal < 0 THEN <<-1, 0>>
  ELSE <<0, 0>>

ProgressOne == <<1, 1>>

IsNumber(p) == p[2] > 0
Leq(p, q) == IsNumber(p) /\ IsNumber(q) /\ p[1] * q[2] <= q[1] * p[2]
IsOne(p) == IsNumber(p) /\ p[1] = p[2]
InUnit(p) == IsNumber(p) /\ 0 <= p[1] /\ p[1] <= p[2]

\* Clip time between two frame callbacks: the first callback of a clip comes
\* within its first frame interval, each later one 1..FrameInterval ticks after
\* the one before.
FrameSteps(delivered) ==
  IF delivered THEN 1..FrameInterval ELSE 0..(FrameInterval - 1)

\* Mutant of StopCondition: the comparison is strict.
StopConditionGt(currentTime, cutDuration) == currentTime > cutDuration

\* if (video.currentTime >= cutDuration)
StopCondition(currentTime, cutDuration) == currentTime >= cutDuration

\* onProgress(p)
Emit(p) ==
  /\ progress' = p
  /\ ones' = IF IsOne(p) THEN ones + 1 ELSE ones

NoEmit == UNCHANGED <<progress, ones>>

\* mediaRecorder.stop(): nothing when inactive, else inactive with the
\* dataavailable and stop events queued
RecorderStop(r) ==
  IF r.state \in {"recording", "paused"}
    THEN [r EXCEPT !.state = "inactive", !.stopQueued = TRUE]
    ELSE r

\* A painted frame reaches the recorder through the captured canvas stream
\* while it is recording; data is the number of blobs it holds to deliver
\* (one blob, as start() is called without a timeslice).
RecordFrame(r) == IF r.state = "recording" THEN [r EXCEPT !.data = 1] ELSE r

\* mediaRecorder.ondataavailable: if (e.data.size > 0) chunks.push(e.data)
OnDataAvailable(cs, size) == IF size > 0 THEN Append(cs, size) ELSE cs

\* ---- the gain envelope ------------------------------------------------------
\* const fadeDuration = 1.5 (seconds): three ticks of half a second.
fadeDuration == 3

NoGain == <<-1, 0>>

\* Mutant of EnvelopeCalls: the hold event before the fade-out is left out.
EnvelopeCallsNoHold(t0, total) ==
  << [type |-> "set", value |-> 0, time |-> t0],
     [type |-> "ramp", value |-> 1, time |-> t0 + fadeDuration],
     [type |-> "ramp", value |-> 0, time |-> t0 + total] >>

\* The four automation calls on gainNode.gain, in the order of the code:
\* setValueAtTime(0, t0); linearRampToValueAtTime(1, t0 + fadeDuration);
\* setValueAtTime(1, t0 + totalDuration - fadeDuration);
\* linearRampToValueAtTime(0, t0 + totalDuration).
EnvelopeCalls(t0, total) ==
  << [type |-> "set", value |-> 0, time |-> t0],
     [type |-> "ramp", value |-> 1, time |-> t0 + fadeDuration],
     [type |-> "set", value |-> 1, time |-> t0 + total - fadeDuration],
     [type |-> "ramp", value |-> 0, time |-> t0 + total] >>

\* An automation call with a negative time throws a RangeError.
RangeError(calls) == \E i \in 1..Len(calls) : calls[i].time < 0

\* The calls made before the first one that throws.
Accepted(calls) ==
  LET bad == { i \in 1..Len(calls) : calls[i].time < 0 }
      first == IF bad = {} THEN Len(calls) + 1
               ELSE CHOOSE i \in bad : \A j \in bad : i <= j
  IN SubSeq(calls, 1, first - 1)

\* An AudioParam keeps its events sorted by time; an event is put after the
\* events of the same time.
InsertEvent(events, e) ==
  LET k == Cardinality({ i \in 1..Len(events) : events[i].time <= e.time })
  IN SubSeq(events, 1, k) \o <<e>> \o SubSeq(events, k + 1, Len(events))

RECURSIVE Schedule(_, _)
Schedule(events, calls) ==
  IF calls = <<>> THEN events
  ELSE Schedule(InsertEvent(events, Head(calls)), Tail(calls))

\* The value of the AudioParam at time t, as a fraction <<n, d>>: the value of
\* the last event at or before t, or, when the next event is a linear ramp,
\* the point of the line from that event to the ramp's end.  1 (the default
\* gain) before the first event.
ValueAt(events, t) ==
  LET k == Cardinality({ i \in 1..Len(events) : events[i].time <= t })
  IN IF k = 0 THEN <<1, 1>>
     ELSE IF k < Len(events) /\ events[k + 1].type = "ramp"
       THEN LET span == events[k + 1].time - events[k].time
            IN << events[k].value * span
                    + (events[k + 1].value - events[k].value)
                      * (t - events[k].time),
                  span >>
       ELSE <<events[k].value, 1>>

\* ---- the canvas --------------------------------------------------------------
\* canvas.width = 1080; canvas.height = 1920
CanvasWidth == 1080
CanvasHeight == 1920

\* A number as a fraction <<n, d>> with d > 0.
FracLeq(a, b) == a[1] * b[2] <= b[1] * a[2]

\* Mutant of MathMin: the larger of the two numbers.
MathMax(a, b) == IF FracLeq(a, b) THEN b ELSE a

\* Math.min(a, b)
MathMin(a, b) == IF FracLeq(a, b) THEN a ELSE b

\* const scale = Math.min(canvas.width / video.videoWidth,
\*                        canvas.height / video.videoHeight);
\* w = videoWidth * scale; h = videoHeight * scale;
\* x = (canvas.width - w) / 2; y = (canvas.height - h) / 2
ContainRect(size) ==
  LET scale == MathMin(<<CanvasWidth, size[1]>>, <<CanvasHeight, size[2]>>)
      w == <<size[1] * scale[1], scale[2]>>
      h == <<size[2] * scale[1], scale[2]>>
  IN [x |-> <<CanvasWidth * w[2] - w[1], 2 * w[2]>>,
      y |-> <<CanvasHeight * h[2] - h[1], 2 * h[2]>>,
      w |-> w,
      h |-> h]

NoRect == [x |-> <<0, 1>>, y |-> <<0, 1>>, w |-> <<0, 1>>, h |-> <<0, 1>>]
NoCanvas == [rect |-> NoRect, filled |-> NoRect, drawn |-> NoRect]

\* ctx.fillStyle = '#000'; ctx.fillRect(0, 0, canvas.width, canvas.height);
\* ctx.drawImage(video, x, y, w, h)
PaintFrame(c) ==
  [c EXCEPT !.filled = [x |-> <<0, 1>>, y |-> <<0, 1>>,
                        w |-> <<CanvasWidth, 1>>, h |-> <<CanvasHeight, 1>>],
            !.drawn = c.rect]

\* The size of the clips of a render of Spec: 16 x 9, the shape of a
\* 1920 x 1080 clip.
LandscapeSize == <<16, 9>>

\* ---- the planner service ------------------------------------------------------
\* The uploaded clips (clips: VideoClip[]): their id and duration.
Clips == <<[id |-> 1, duration |-> 2], [id |-> 2, duration |-> 3]>>
ClipIds == { Clips[k].id : k \in 1..Len(Clips) }

\* clips.find(c => c.id === clipId): the index of the clip, 0 when there is none
FindClip(clipId) ==
  IF clipId \in ClipIds
    THEN CHOOSE k \in 1..Len(Clips) : Clips[k].id = clipId
    ELSE 0

\* What the planner can return as one timeline entry: an id that is not the id
\* of a clip (0), or the id of a clip with a cutDuration that is negative, zero,
\* inside the clip or its whole duration (2), or longer than the clip (4).
PlannerEntries ==
  { [clipId |-> 0, cutDuration |-> 2] } \cup
  { [clipId |-> Clips[k].id, cutDuration |-> c] :
      k \in 1..Len(Clips),
      c \in {0 - MaxNegCut, 0, 2, 4} }

\* result.timeline of a well-formed answer
PlannerResults == UNION { [1..n -> PlannerEntries] : n \in 0..MaxPlan }

\* Mutant of MapEntry: the planner's cutDuration is taken as it is.
MapEntryUnclamped(item) ==
  LET clip == Clips[FindClip(item.clipId)]
  IN [clip |-> clip.id, duration |-> clip.duration,
      cutDuration |-> item.cutDuration]

\* { clip, cutDuration: Math.min(item.cutDuration, clip.duration), reasoning }
MapEntry(item) ==
  LET clip == Clips[FindClip(item.clipId)]
  IN [clip |-> clip.id, duration |-> clip.duration,
      cutDuration |-> safeDuration(item.cutDuration, clip.duration)]

\* result.timeline.map(...).filter(item => !!item)
RECURSIVE MapTimeline(_)
MapTimeline(plan) ==
  IF plan = <<>> THEN <<>>
  ELSE IF FindClip(Head(plan).clipId) = 0 THEN MapTimeline(Tail(plan))
  ELSE <<MapEntry(Head(plan))>> \o MapTimeline(Tail(plan))

\* The GeneratedSequence that generateSingleSequence returns for a BGM file
\* (0: none) and the planner's answer.
generateSingleSequence(bgm, plan) ==
  LET tl == MapTimeline(plan)
  IN [bgmFile |-> bgm, timeline |-> tl, totalDuration |-> SumCut(tl, Len(tl))]

\* Mutant of iterationCount: no iteration without a BGM file.
iterationCountOfFiles(bgmFiles) == Len(bgmFiles)

\* const iterationCount = bgmFiles.length > 0 ? bgmFiles.length : 1
iterationCount(bgmFiles) == IF Len(bgmFiles) > 0 THEN Len(bgmFiles) ELSE 1

\* const filesToProcess = bgmFiles.length > 0 ? bgmFiles : [null]
filesToProcess(bgmFiles) == IF Len(bgmFiles) > 0 THEN bgmFiles ELSE <<0>>

\* Mutant of Overused: a clip is avoided once it has been used.
OverusedOnce(count) == { id \in ClipIds : count[id] >= 1 }

\* globalUsageCount.entries() filtered by count >= 2
Overused(count) == { id \in ClipIds : count[id] >= 2 }

\* sequence.timeline.forEach(item => globalUsageCount.set(item.clip.id, ...))
UpdateUsage(count, tl) ==
  [id \in ClipIds |->
     count[id] + Cardinality({ k \in 1..Len(tl) : tl[k].clip = id })]

NoSequence == [bgmFile |-> 0, timeline |-> <<>>, totalDuration |-> 0]

\* No call of generateBatchSequences.
BatchIdle ==
  [status |-> "idle", apiKey |-> FALSE, bgmFiles |-> <<>>, i |-> 0,
   globalUsageCount |-> [id \in ClipIds |-> 0], overusedClipIds |-> {},
   plan |-> <<>>, sequence |-> NoSequence, results |-> <<>>,
   returned |-> <<>>]

\* The bgmFiles argument: up to MaxBgm different files, in any order.
BgmLists ==
  UNION { { f \in [1..n -> 1..MaxBgm] :
              \A a, b \in 1..n : (a # b) => (f[a] # f[b]) } : n \in 0..MaxBgm }

\* ---- concurrent calls ----------------------------------------------------------
NoSessions == <<>>

\* ---- the components and calls that are not running --------------------------
\* processUploadedFiles has not been called.
UploadIdle == [status |-> "idle", files |-> <<>>, i |-> 1, clips |-> <<>>]

\* The App component is not mounted.
AppUnmounted == [mounted |-> FALSE]

\* The preview Player is not mounted.
PlayerUnmounted == [mounted |-> FALSE]

\* ---- the recorder's mime types ----------------------------------------------
MimeH264 == "video/webm; codecs=h264"
MimeVP9 == "video/webm; codecs=vp9"
MimeWebm == "video/webm"
MimeTypes == {MimeH264, MimeVP9, MimeWebm}

\* ---- initial state ---------------------------------------------------------
\* The locals of a call before its first statement, whatever its arguments;
\* position is "init" for a call that is made and "idle" when there is none.
ConstructedAt(position) ==
  /\ canvas = NoCanvas
  /\ cancelRequested = FALSE
  /\ gainNode = [events |-> <<>>, time |-> -1, value |-> NoGain]
  /\ pc = position
  /\ idx = 1
  /\ processedDuration = 0
  /\ audioCtx = [state |-> "none", currentTime |-> 0, edges |-> {}]
  /\ envelopeT0 = -1
  /\ sourceStarts = 0
  /\ sourceStartTime = -1
  /\ mediaRecorder = [state |-> "none", data |-> 0, onstop |-> FALSE,
                      stopQueued |-> FALSE, error |-> FALSE,
                      mimeType |-> "none", tracks |-> {}]
  /\ chunks = <<>>
  /\ blob = NoBlob
  /\ video = [src |-> 0, paused |-> TRUE, ended |-> FALSE, currentTime |-> 0,
              delivered |-> FALSE, callback |-> FALSE, muted |-> FALSE]
  /\ progress = NoProgress
  /\ ones = 0
  /\ lastPaint = NoPaint
  /\ stopped = {}
  /\ loadStarted = {}
  /\ errorKind = "none"

\* concatVideos has been called and has not run a statement yet.
Constructed == ConstructedAt("init")

\* A render with the hardware flag off (its default in App) on a runtime that
\* supports every mime type the code asks for.
Init ==
  /\ timeline \in Timelines
  /\ bgmFile \in BOOLEAN
  /\ useGPU = FALSE
  /\ supported = MimeTypes
  /\ videoSize = LandscapeSize
  /\ batch = BatchIdle
  /\ sessions = NoSessions
  /\ app = AppUnmounted
  /\ upload = UploadIdle
  /\ player = PlayerUnmounted
  /\ Constructed

\* ---- the catch block of the render loop ------------------------------------
\* Mutant of Catch: the error is not rethrown, the function goes on to finalize.
CatchNoRethrow(kind) ==
  /\ mediaRecorder' = RecorderStop([mediaRecorder EXCEPT !.onstop = TRUE])
  /\ pc' = "finalizing"
  /\ errorKind' = kind

\* catch (err) { mediaRecorder.stop(); throw err; }
Catch(kind) ==
  /\ mediaRecorder' = RecorderStop(mediaRecorder)
  /\ pc' = "rejected"
  /\ errorKind' = kind

\* ---- actions ---------------------------------------------------------------
\* Entry of concatVideos up to the first await: the empty-timeline check, the
\* audio context and the gain envelope.
Start ==
  /\ pc = "init"
  /\ IF Len(timeline) = 0
       THEN /\ pc' = "rejected"
            /\ errorKind' = "empty"
            /\ UNCHANGED <<audioCtx, envelopeT0, gainNode>>
       ELSE LET calls == EnvelopeCalls(0, totalDuration)
            IN /\ audioCtx' = [state |-> "running", currentTime |-> 0,
                               edges |-> {<<"gainNode", "dest">>}]
               /\ envelopeT0' = 0
               /\ gainNode' = [gainNode EXCEPT
                                 !.events = Schedule(<<>>, Accepted(calls))]
               /\ IF RangeError(calls)
                    THEN /\ pc' = "rejected"
                         /\ errorKind' = "range"
                    ELSE /\ pc' = IF bgmFile THEN "decoding" ELSE "setup"
                         /\ UNCHANGED errorKind
  /\ UNCHANGED <<timeline, bgmFile, useGPU, supported, videoSize, batch,
                 sessions, app, upload, player, canvas, cancelRequested,
                 idx, processedDuration, sourceStarts,
                 sourceStartTime, mediaRecorder, chunks, blob, video, progress,
                 ones, lastPaint, stopped, loadStarted>>

\* await bgmFile.arrayBuffer(); await audioCtx.decodeAudioData(...) resolve,
\* then source.connect(gainNode) and source.start(0).
DecodeDone ==
  /\ pc = "decoding"
  /\ sourceStarts' = sourceStarts + 1
  /\ sourceStartTime' = audioCtx.currentTime
  /\ audioCtx' = [audioCtx EXCEPT
                    !.edges = audioCtx.edges \cup {<<"source", "gainNode">>}]
  /\ pc' = "setup"
  /\ UNCHANGED <<timeline, bgmFile, useGPU, supported, videoSize, batch,
                 sessions, app, upload, player, canvas, cancelRequested,
                 gainNode, idx, processedDuration,
                 envelopeT0, mediaRecorder, chunks, blob, video, progress,
                 ones, lastPaint, stopped, loadStarted,
                 errorKind>>

\* Mutant of DecodeFail: the error is noted and the render goes on without a
\* background source.
DecodeFailFallback ==
  /\ pc = "decoding"
  /\ pc' = "setup"
  /\ errorKind' = "decode"
  /\ UNCHANGED <<timeline, bgmFile, useGPU, supported, videoSize, batch,
                 sessions, app, upload, player, canvas, cancelRequested,
                 gainNode, idx, processedDuration, audioCtx,
                 envelopeT0, sourceStarts, sourceStartTime, mediaRecorder,
                 chunks, blob, video, progress, ones, lastPaint,
                 stopped, loadStarted>>

\* decodeAudioData rejects: the await is outside the try block, the call
\* rejects with the decoder's error.
DecodeFail ==
  /\ pc = "decoding"
  /\ pc' = "rejected"
  /\ errorKind' = "decode"
  /\ UNCHANGED <<timeline, bgmFile, useGPU, supported, videoSize, batch,
                 sessions, app, upload, player, canvas, cancelRequested,
                 gainNode, idx, processedDuration, audioCtx,
                 envelopeT0, sourceStarts, sourceStartTime, mediaRecorder,
                 chunks, blob, video, progress, ones, lastPaint,
                 stopped, loadStarted>>

\* MediaRecorder.isTypeSupported(type)
isTypeSupported(type) == type \in supported

\* Mutant of SelectMimeType: the hardware flag is not looked at.
SelectMimeTypeNoFlag ==
  IF isTypeSupported(MimeH264) THEN MimeH264
  ELSE IF isTypeSupported(MimeVP9) THEN MimeVP9
  ELSE MimeWebm

\* let mimeType = 'video/webm'; if (useGPU && isTypeSupported(h264)) ...
\* else if (isTypeSupported(vp9)) ...
SelectMimeType ==
  IF useGPU /\ isTypeSupported(MimeH264) THEN MimeH264
  ELSE IF isTypeSupported(MimeVP9) THEN MimeVP9
  ELSE MimeWebm

\* Mutant of ConstructorAccepts: the constructor takes any mime type.
ConstructorAcceptsAny(type) == type \in MimeTypes

\* new MediaRecorder(stream, {mimeType}) throws a NotSupportedError when the
\* runtime does not support mimeType.
ConstructorAccepts(type) == isTypeSupported(type)

\* canvas.captureStream(60).getVideoTracks()
CanvasVideoTracks == {[kind |-> "video", origin |-> "canvas"]}

\* dest.stream.getAudioTracks(): the stream of a MediaStreamAudioDestinationNode
\* has one audio track, whether or not a node is connected to it.
DestAudioTracks == {[kind |-> "audio", origin |-> "dest"]}

\* const tracks = [...canvasStream.getVideoTracks(),
\*                 ...dest.stream.getAudioTracks()]
CombinedTracks == CanvasVideoTracks \cup DestAudioTracks

\* Mutant of CreateVideo: the element is left unmuted.
CreateVideoUnmuted(v) == [v EXCEPT !.muted = FALSE]

\* document.createElement('video'); video.muted = true
CreateVideo(v) == [v EXCEPT !.muted = TRUE]

\* The mime type is chosen, the recorder is created on the combined stream and
\* started, the video element is created muted.
Setup ==
  /\ pc = "setup"
  /\ IF ConstructorAccepts(SelectMimeType)
       THEN /\ mediaRecorder' = [mediaRecorder EXCEPT
                                   !.state = "recording",
                                   !.mimeType = SelectMimeType,
                                   !.tracks = CombinedTracks]
            /\ video' = CreateVideo(video)
            /\ pc' = "loop"
            /\ UNCHANGED errorKind
       ELSE /\ pc' = "rejected"
            /\ errorKind' = "codec"
            /\ UNCHANGED <<mediaRecorder, video>>
  /\ UNCHANGED <<timeline, bgmFile, useGPU, supported, videoSize, batch,
                 sessions, app, upload, player, canvas, cancelRequested,
                 gainNode, idx, processedDuration, audioCtx,
                 envelopeT0, sourceStarts, sourceStartTime, chunks, blob,
                 progress, ones, lastPaint, stopped, loadStarted>>

\* Mutant of LoopIter: the recorder is not paused.
LoopIterNoPause ==
  /\ pc = "loop"
  /\ idx <= Len(timeline)
  /\ pc' = "suspending"
  /\ UNCHANGED <<timeline, bgmFile, useGPU, supported, videoSize, batch,
                 sessions, app, upload, player, canvas, cancelRequested,
                 gainNode, idx, processedDuration, audioCtx,
                 envelopeT0, sourceStarts, sourceStartTime, chunks, blob,
                 video, progress, ones, lastPaint, stopped,
                 loadStarted, mediaRecorder, errorKind>>

\* Head of one iteration: mediaRecorder.pause() (InvalidStateError when the
\* recorder is inactive), then audioCtx.suspend() is called and awaited.
LoopIter ==
  /\ pc = "loop"
  /\ idx <= Len(timeline)
  /\ IF mediaRecorder.state = "inactive"
       THEN Catch("encoder")
       ELSE /\ mediaRecorder' = [mediaRecorder EXCEPT !.state = "paused"]
            /\ pc' = "suspending"
            /\ UNCHANGED errorKind
  /\ UNCHANGED <<timeline, bgmFile, useGPU, supported, videoSize, batch,
                 sessions, app, upload, player, canvas, cancelRequested,
                 gainNode, idx, processedDuration, audioCtx,
                 envelopeT0, sourceStarts, sourceStartTime, chunks, blob,
                 video, progress, ones, lastPaint, stopped,
                 loadStarted>>

\* Mutant of SuspendDone: the element starts playing, and asking for frames,
\* as soon as its source is assigned.
SuspendDoneAutoplay ==
  /\ pc = "suspending"
  /\ audioCtx' = [audioCtx EXCEPT !.state = "suspended"]
  /\ video' = [video EXCEPT !.src = idx, !.ended = FALSE, !.paused = FALSE,
                            !.currentTime = 0, !.delivered = FALSE,
                            !.callback = TRUE]
  /\ loadStarted' = loadStarted \cup {idx}
  /\ pc' = "loading"
  /\ UNCHANGED <<timeline, bgmFile, useGPU, supported, videoSize, batch,
                 sessions, app, upload, player, canvas, cancelRequested,
                 gainNode, idx, processedDuration, envelopeT0,
                 sourceStarts, sourceStartTime, mediaRecorder, chunks, blob,
                 progress, ones, lastPaint, stopped,
                 errorKind>>

\* audioCtx.suspend() resolves; playClipSegment assigns video.src.
SuspendDone ==
  /\ pc = "suspending"
  /\ audioCtx' = [audioCtx EXCEPT !.state = "suspended"]
  /\ video' = [video EXCEPT !.src = idx, !.ended = FALSE, !.paused = TRUE,
                            !.currentTime = 0, !.delivered = FALSE]
  /\ loadStarted' = loadStarted \cup {idx}
  /\ pc' = "loading"
  /\ UNCHANGED <<timeline, bgmFile, useGPU, supported, videoSize, batch,
                 sessions, app, upload, player, canvas, cancelRequested,
                 gainNode, idx, processedDuration, envelopeT0,
                 sourceStarts, sourceStartTime, mediaRecorder, chunks, blob,
                 progress, ones, lastPaint, stopped,
                 errorKind>>

\* video.onloadedmetadata: resume the audio context and the recorder, then
\* video.play().
OnLoadedMetadata ==
  /\ pc = "loading"
  /\ audioCtx' = IF audioCtx.state = "suspended"
                   THEN [audioCtx EXCEPT !.state = "running"] ELSE audioCtx
  /\ mediaRecorder' = IF mediaRecorder.state = "paused"
                        THEN [mediaRecorder EXCEPT !.state = "recording"]
                        ELSE mediaRecorder
  /\ canvas' = [canvas EXCEPT !.rect = ContainRect(videoSize)]
  /\ video' = [video EXCEPT !.paused = FALSE]
  /\ pc' = "starting"
  /\ UNCHANGED <<timeline, bgmFile, useGPU, supported, videoSize, batch,
                 sessions, app, upload, player, cancelRequested,
                 gainNode, idx, processedDuration, envelopeT0,
                 sourceStarts, sourceStartTime, chunks, blob, progress,
                 ones, lastPaint, stopped, loadStarted,
                 errorKind>>

\* video.onerror while the source loads: reject, caught by the render loop.
OnError ==
  /\ pc = "loading"
  /\ Catch("load")
  /\ UNCHANGED <<timeline, bgmFile, useGPU, supported, videoSize, batch,
                 sessions, app, upload, player, canvas, cancelRequested,
                 gainNode, idx, processedDuration, audioCtx,
                 envelopeT0, sourceStarts, sourceStartTime, chunks, blob,
                 video, progress, ones, lastPaint, stopped,
                 loadStarted>>

\* video.play() resolves: the first frame callback is registered.
PlayResolved ==
  /\ pc = "starting"
  /\ video' = [video EXCEPT !.callback = TRUE]
  /\ pc' = "playing"
  /\ UNCHANGED <<timeline, bgmFile, useGPU, supported, videoSize, batch,
                 sessions, app, upload, player, canvas, cancelRequested,
                 gainNode, idx, processedDuration, audioCtx,
                 envelopeT0, sourceStarts, sourceStartTime, mediaRecorder,
                 chunks, blob, progress, ones, lastPaint,
                 stopped, loadStarted, errorKind>>

\* video.play() rejects: .catch(reject), caught by the render loop.
PlayRejected ==
  /\ pc = "starting"
  /\ video' = [video EXCEPT !.paused = TRUE]
  /\ Catch("load")
  /\ UNCHANGED <<timeline, bgmFile, useGPU, supported, videoSize, batch,
                 sessions, app, upload, player, canvas, cancelRequested,
                 gainNode, idx, processedDuration, audioCtx,
                 envelopeT0, sourceStarts, sourceStartTime, chunks, blob,
                 progress, ones, lastPaint, stopped, loadStarted>>

\* Mutant of Resolve: the clip's whole duration is added.
ResolveAddsDuration ==
  IF pc = "playing"
    THEN /\ processedDuration' = processedDuration + timeline[idx].duration
         /\ idx' = idx + 1
         /\ pc' = "loop"
    ELSE UNCHANGED <<processedDuration, idx, pc>>

\* await playClipSegment(item) returns: processedDuration += item.cutDuration
\* and the loop goes to its next iteration.  resolve() of a promise that is not
\* awaited any more does nothing.
Resolve ==
  IF pc = "playing"
    THEN /\ processedDuration' = processedDuration + timeline[idx].cutDuration
         /\ idx' = idx + 1
         /\ pc' = "loop"
    ELSE UNCHANGED <<processedDuration, idx, pc>>

\* Mutant of DrawFrameAt: no return after resolve(), the frame is painted too.
DrawFrameAtFallThrough(t) ==
  /\ video' = [video EXCEPT !.currentTime = t, !.delivered = TRUE,
         !.paused = StopCondition(t, timeline[video.src].cutDuration)]
  /\ stopped' = IF StopCondition(t, timeline[video.src].cutDuration)
                  THEN stopped \cup {video.src} ELSE stopped
  /\ IF StopCondition(t, timeline[video.src].cutDuration)
       THEN Resolve ELSE UNCHANGED <<processedDuration, idx, pc>>
  /\ lastPaint' = [item |-> video.src, time |-> t]
  /\ canvas' = PaintFrame(canvas)
  /\ mediaRecorder' = RecordFrame(mediaRecorder)
  /\ Emit(ProgressValue(processedDuration + t, totalDuration))

\* The body of drawFrame at clip time t, after the paused/ended test.
DrawFrameAt(t) ==
  LET item == timeline[video.src] IN
  IF StopCondition(t, item.cutDuration)
    THEN \* video.pause(); resolve(); return
      /\ video' = [video EXCEPT !.currentTime = t, !.paused = TRUE,
                                !.delivered = TRUE, !.callback = FALSE]
      /\ stopped' = stopped \cup {video.src}
      /\ Resolve
      /\ NoEmit
      /\ UNCHANGED <<lastPaint, mediaRecorder, canvas>>
    ELSE \* paint, report progress, ask for the next frame
      /\ video' = [video EXCEPT !.currentTime = t, !.delivered = TRUE]
      /\ lastPaint' = [item |-> video.src, time |-> t]
      /\ canvas' = PaintFrame(canvas)
      /\ mediaRecorder' = RecordFrame(mediaRecorder)
      /\ Emit(ProgressValue(processedDuration + t, totalDuration))
      /\ UNCHANGED <<stopped, processedDuration, idx, pc>>

\* One frame callback of the playing clip.  The clip has advanced by d ticks
\* since the previous callback (FrameSteps).
\* When that reaches the clip's duration the element has ended: drawFrame
\* returns at its first test and asks for no further frame.
drawFrame ==
  /\ video.callback
  /\ \E d \in FrameSteps(video.delivered) :
       LET t == video.currentTime + d IN
       IF video.paused
         THEN /\ video' = [video EXCEPT !.callback = FALSE]
              /\ NoEmit
              /\ UNCHANGED <<lastPaint, stopped, processedDuration, idx, pc,
                             canvas, mediaRecorder>>
         ELSE IF t >= timeline[video.src].duration
           THEN /\ video' = [video EXCEPT !.ended = TRUE, !.callback = FALSE,
                               !.currentTime = timeline[video.src].duration]
                /\ NoEmit
                /\ UNCHANGED <<lastPaint, stopped, processedDuration, idx, pc,
                               canvas, mediaRecorder>>
           ELSE DrawFrameAt(t)
  /\ UNCHANGED <<timeline, bgmFile, useGPU, supported, videoSize, batch,
                 sessions, app, upload, player, cancelRequested,
                 gainNode, audioCtx, envelopeT0, sourceStarts,
                 sourceStartTime, chunks, blob, loadStarted, errorKind>>

\* Mutant of Finalize: the timeline is emptied once it has been rendered.
FinalizeClearing ==
  /\ pc = "loop"
  /\ idx > Len(timeline)
  /\ mediaRecorder' = RecorderStop([mediaRecorder EXCEPT !.onstop = TRUE])
  /\ pc' = "finalizing"
  /\ timeline' = <<>>
  /\ UNCHANGED <<bgmFile, useGPU, supported, videoSize, batch,
                 sessions, app, upload, player, canvas, cancelRequested,
                 gainNode, idx, processedDuration, audioCtx,
                 envelopeT0, sourceStarts, sourceStartTime, chunks, blob,
                 video, progress, ones, lastPaint, stopped,
                 loadStarted, errorKind>>

\* After the loop: mediaRecorder.onstop is set and mediaRecorder.stop() called.
Finalize ==
  /\ pc = "loop"
  /\ idx > Len(timeline)
  /\ mediaRecorder' = RecorderStop([mediaRecorder EXCEPT !.onstop = TRUE])
  /\ pc' = "finalizing"
  /\ UNCHANGED <<timeline, bgmFile, useGPU, supported, videoSize, batch,
                 sessions, app, upload, player, canvas, cancelRequested,
                 gainNode, idx, processedDuration, audioCtx,
                 envelopeT0, sourceStarts, sourceStartTime, chunks, blob,
                 video, progress, ones, lastPaint, stopped,
                 loadStarted, errorKind>>

\* Mutant of StopEvent: the blob is built before the last data is delivered.
StopEventBeforeData ==
  /\ mediaRecorder.stopQueued
  /\ chunks' = OnDataAvailable(chunks, mediaRecorder.data)
  /\ mediaRecorder' = [mediaRecorder EXCEPT !.stopQueued = FALSE, !.data = 0]
  /\ IF mediaRecorder.onstop
       THEN /\ Emit(ProgressOne)
            /\ audioCtx' = [audioCtx EXCEPT !.state = "closed"]
            /\ blob' = chunks
            /\ pc' = "resolved"
       ELSE /\ NoEmit
            /\ UNCHANGED <<audioCtx, blob, pc>>
  /\ UNCHANGED <<timeline, bgmFile, useGPU, supported, videoSize, batch,
                 sessions, app, upload, player, canvas, cancelRequested,
                 gainNode, idx, processedDuration, envelopeT0,
                 sourceStarts, sourceStartTime, video, lastPaint, stopped,
                 loadStarted, errorKind>>

\* The task queued by stop(): dataavailable, then the stop event.  With the
\* onstop handler of Finalize: onProgress(1), audioCtx.close(), resolve(blob).
StopEvent ==
  /\ mediaRecorder.stopQueued
  /\ chunks' = OnDataAvailable(chunks, mediaRecorder.data)
  /\ mediaRecorder' = [mediaRecorder EXCEPT !.stopQueued = FALSE, !.data = 0]
  /\ IF mediaRecorder.onstop
       THEN /\ Emit(ProgressOne)
            /\ audioCtx' = [audioCtx EXCEPT !.state = "closed"]
            /\ blob' = chunks'
            /\ pc' = "resolved"
       ELSE /\ NoEmit
            /\ UNCHANGED <<audioCtx, blob, pc>>
  /\ UNCHANGED <<timeline, bgmFile, useGPU, supported, videoSize, batch,
                 sessions, app, upload, player, canvas, cancelRequested,
                 gainNode, idx, processedDuration, envelopeT0,
                 sourceStarts, sourceStartTime, video, lastPaint, stopped,
                 loadStarted, errorKind>>

\* The encoder fails while recording: the recorder becomes inactive and delivers
\* what it holds; no onstop handler is set before Finalize.
RecorderError ==
  /\ mediaRecorder.state = "recording"
  /\ pc \notin {"resolved", "rejected"}
  /\ chunks' = OnDataAvailable(chunks, mediaRecorder.data)
  /\ mediaRecorder' = [mediaRecorder EXCEPT !.state = "inactive", !.data = 0,
                                            !.error = TRUE]
  /\ UNCHANGED <<timeline, bgmFile, useGPU, supported, videoSize, batch,
                 sessions, app, upload, player, canvas, cancelRequested,
                 gainNode, pc, idx, processedDuration, audioCtx,
                 envelopeT0, sourceStarts, sourceStartTime, blob, video,
                 progress, ones, lastPaint, stopped, loadStarted,
                 errorKind>>

\* The audio clock advances while the context is running.
AudioTick ==
  /\ audioCtx.state = "running"
  /\ audioCtx.currentTime < MaxAudioTime
  /\ audioCtx' = [audioCtx EXCEPT !.currentTime = audioCtx.currentTime + 1]
  /\ UNCHANGED <<timeline, bgmFile, useGPU, supported, videoSize, batch,
                 sessions, app, upload, player, canvas, cancelRequested,
                 gainNode, pc, idx, processedDuration, envelopeT0,
                 sourceStarts, sourceStartTime, mediaRecorder, chunks, blob,
                 video, progress, ones, lastPaint, stopped,
                 loadStarted, errorKind>>

Next ==
  \/ Start
  \/ DecodeDone
  \/ DecodeFail
  \/ Setup
  \/ LoopIter
  \/ SuspendDone
  \/ OnLoadedMetadata
  \/ OnError
  \/ PlayResolved
  \/ PlayRejected
  \/ drawFrame
  \/ Finalize
  \/ StopEvent
  \/ RecorderError
  \/ AudioTick

Spec == Init /\ [][Next]_vars

\* ---- every hardware flag and runtime ---------------------------------------
\* The sets of mime types a runtime can support: one that records a codec into
\* webm supports plain 'video/webm' too.
SupportSets ==
  { S \in SUBSET MimeTypes :
      (MimeH264 \in S \/ MimeVP9 \in S) => MimeWebm \in S }

\* One-item timelines, with every hardware flag and every runtime.
CodecInit ==
  /\ timeline \in { tl \in Timelines : Len(tl) = 1 }
  /\ bgmFile \in BOOLEAN
  /\ useGPU \in BOOLEAN
  /\ supported \in SupportSets
  /\ videoSize = LandscapeSize
  /\ batch = BatchIdle
  /\ sessions = NoSessions
  /\ app = AppUnmounted
  /\ upload = UploadIdle
  /\ player = PlayerUnmounted
  /\ Constructed

CodecSpec == CodecInit /\ [][Next]_vars

\* ---- a caller that wants to cancel -------------------------------------------
\* The caller asks for the running render to be cancelled.  concatVideos takes
\* (timeline, bgmFile, useGPU, onProgress) and nothing that carries such a
\* request, so no variable of the render changes.
CancelRequest ==
  /\ pc \notin {"init", "resolved", "rejected"}
  /\ ~cancelRequested
  /\ cancelRequested' = TRUE
  /\ UNCHANGED <<timeline, bgmFile, useGPU, supported, videoSize, batch,
                 sessions, app, upload, player, canvas, gainNode, pc, idx,
                 processedDuration, audioCtx, envelopeT0, sourceStarts,
                 sourceStartTime, mediaRecorder, chunks, blob, video, progress,
                 ones, lastPaint, stopped, loadStarted, errorKind>>

CancelInit ==
  /\ timeline \in { tl \in Timelines : Len(tl) = 1 }
  /\ bgmFile \in BOOLEAN
  /\ useGPU = FALSE
  /\ supported = MimeTypes
  /\ videoSize = LandscapeSize
  /\ batch = BatchIdle
  /\ sessions = NoSessions
  /\ app = AppUnmounted
  /\ upload = UploadIdle
  /\ player = PlayerUnmounted
  /\ Constructed

CancelNext ==
  \/ Next
  \/ CancelRequest

CancelSpec == CancelInit /\ [][CancelNext]_vars

\* ---- clips of every size ------------------------------------------------------
VideoSizes == (1..MaxSide) \X (1..MaxSide)

\* One item that plays and stops, on clips of every size.
LetterboxInit ==
  /\ timeline = <<[duration |-> MaxDur, cutDuration |-> MaxDur - 1]>>
  /\ bgmFile \in BOOLEAN
  /\ useGPU = FALSE
  /\ supported = MimeTypes
  /\ videoSize \in VideoSizes
  /\ batch = BatchIdle
  /\ sessions = NoSessions
  /\ app = AppUnmounted
  /\ upload = UploadIdle
  /\ player = PlayerUnmounted
  /\ Constructed

LetterboxSpec == LetterboxInit /\ [][Next]_vars

\* ---- generateBatchSequences ----------------------------------------------------
\* The variables of a render, which the planner service does not touch.
renderVars ==
  <<timeline, bgmFile, useGPU, supported, cancelRequested, gainNode, videoSize,
    canvas, sessions, app, upload, player, pc, idx, processedDuration, audioCtx, envelopeT0,
    sourceStarts, sourceStartTime, mediaRecorder, chunks, blob, video,
    progress, ones, lastPaint, stopped, loadStarted, errorKind>>

\* Entry of generateBatchSequences: the API key check, the empty usage map and
\* the empty results.
BatchEntry ==
  /\ batch.status = "called"
  /\ batch' = IF batch.apiKey
                THEN [batch EXCEPT !.status = "running"]
                ELSE [batch EXCEPT !.status = "rejected"]
  /\ UNCHANGED renderVars

\* generateSingleSequence resolves in iteration i: the avoid list has been
\* computed, the planner has answered and the sequence is built.
SequenceGenerated ==
  /\ batch.status = "running"
  /\ batch.i < iterationCount(batch.bgmFiles)
  /\ \E plan \in PlannerResults :
       LET bgm == filesToProcess(batch.bgmFiles)[batch.i + 1]
       IN batch' = [batch EXCEPT
            !.status = "generated",
            !.overusedClipIds = Overused(batch.globalUsageCount),
            !.plan = plan,
            !.sequence = generateSingleSequence(bgm, plan)]
  /\ UNCHANGED renderVars

\* The rest of the iteration: the usage counts are updated and the sequence is
\* pushed; plan and sequence are locals of the iteration.
SequencePushed ==
  /\ batch.status = "generated"
  /\ batch' = [batch EXCEPT
       !.status = "running",
       !.globalUsageCount =
          UpdateUsage(batch.globalUsageCount, batch.sequence.timeline),
       !.results = Append(batch.results,
                          [bgmFile |-> batch.sequence.bgmFile]),
       !.plan = <<>>,
       !.sequence = NoSequence,
       !.i = batch.i + 1]
  /\ UNCHANGED renderVars

\* generateSingleSequence rejects in iteration i (the request fails, or the
\* answer has no timeline array): generateBatchSequences rejects.
SequenceFailed ==
  /\ batch.status = "running"
  /\ batch.i < iterationCount(batch.bgmFiles)
  /\ batch' = [batch EXCEPT
                 !.overusedClipIds = Overused(batch.globalUsageCount),
                 !.status = "rejected"]
  /\ UNCHANGED renderVars

\* return results
BatchReturn ==
  /\ batch.status = "running"
  /\ batch.i >= iterationCount(batch.bgmFiles)
  /\ batch' = [batch EXCEPT !.status = "returned",
                            !.returned = batch.results]
  /\ UNCHANGED renderVars

BatchInit ==
  /\ timeline = <<>>
  /\ bgmFile = FALSE
  /\ useGPU = FALSE
  /\ supported = MimeTypes
  /\ videoSize = LandscapeSize
  /\ sessions = NoSessions
  /\ app = AppUnmounted
  /\ upload = UploadIdle
  /\ player = PlayerUnmounted
  /\ Constructed
  /\ \E key \in BOOLEAN, files \in BgmLists :
       batch = [BatchIdle EXCEPT !.status = "called", !.apiKey = key,
                                 !.bgmFiles = files]

BatchNext ==
  \/ BatchEntry
  \/ SequenceGenerated
  \/ SequencePushed
  \/ SequenceFailed
  \/ BatchReturn

BatchSpec == BatchInit /\ [][BatchNext]_vars

\* The entries of a planner answer that name an uploaded clip, as positions of
\* the answer.
KnownEntries(plan) == { k \in 1..Len(plan) : plan[k].clipId \in ClipIds }

\* The position in the answer of the j-th entry that names an uploaded clip.
KnownEntry(plan, j) ==
  CHOOSE k \in KnownEntries(plan) :
    Cardinality({ m \in KnownEntries(plan) : m <= k }) = j

\* The number of items of a timeline that play clip id.
RECURSIVE Occurrences(_, _)
Occurrences(tl, id) ==
  IF tl = <<>> THEN 0
  ELSE (IF Head(tl).clip = id THEN 1 ELSE 0) + Occurrences(Tail(tl), id)

\* ---- the envelope on its own -------------------------------------------------
\* The audio engine reads the gain at envelope time t.
SampleGain ==
  /\ gainNode.events # <<>>
  /\ errorKind # "range"
  /\ \E t \in 0..totalDuration :
       gainNode' = [gainNode EXCEPT !.time = t,
                                    !.value = ValueAt(gainNode.events, t)]
  /\ UNCHANGED <<timeline, bgmFile, useGPU, supported, videoSize, batch,
                 sessions, app, upload, player, canvas, cancelRequested, pc,
                 idx, processedDuration, audioCtx, envelopeT0, sourceStarts,
                 sourceStartTime, mediaRecorder, chunks, blob, video, progress,
                 ones, lastPaint, stopped, loadStarted, errorKind>>

\* One-item timelines of every total duration up to MaxTotal.
EnvelopeTimelines ==
  { <<[duration |-> MaxTotal, cutDuration |-> c]>> :
      c \in (0 - MaxNegCut)..MaxTotal }

EnvelopeInit ==
  /\ timeline \in EnvelopeTimelines
  /\ bgmFile = FALSE
  /\ useGPU = FALSE
  /\ supported = MimeTypes
  /\ videoSize = LandscapeSize
  /\ batch = BatchIdle
  /\ sessions = NoSessions
  /\ app = AppUnmounted
  /\ upload = UploadIdle
  /\ player = PlayerUnmounted
  /\ Constructed

EnvelopeNext ==
  \/ Start
  \/ SampleGain

EnvelopeSpec == EnvelopeInit /\ [][EnvelopeNext]_vars

\* ---- two concurrent calls of concatVideos ---------------------------------------
\* Every object of a render is created inside the call: the canvas, the audio
\* graph, the recorder, the chunks array, the video element and
\* processedDuration are locals of concatVideos, and the module has no
\* variable of its own.  sessions[s] holds the locals of call s that the
\* caller can observe; the calls take their steps in any order.
singleVars ==
  <<timeline, bgmFile, useGPU, supported, cancelRequested, gainNode, videoSize,
    canvas, batch, app, upload, player, pc, idx, processedDuration, audioCtx,
    envelopeT0, sourceStarts, sourceStartTime, mediaRecorder, chunks, blob,
    video, progress, ones, lastPaint, stopped, loadStarted, errorKind>>

SessionIds == 1..2

\* The timelines of the concurrent calls: up to MaxItems clips of MaxDur ticks,
\* each cut one tick short.
SessionTimelines ==
  { [k \in 1..n |-> [duration |-> MaxDur, cutDuration |-> MaxDur - 1]] :
      n \in 0..MaxItems }

\* The promise of a call that has not resolved.
NoSessionBlob == [made |-> FALSE, parts |-> <<>>]

\* The locals of a call that has not run yet.
NewSession(tl) ==
  [timeline |-> tl, pc |-> "init", idx |-> 1, processedDuration |-> 0,
   currentTime |-> 0, recorder |-> "none", data |-> {}, chunks |-> <<>>,
   blob |-> NoSessionBlob, progress |-> NoProgress, lastPaint |-> NoPaint]

\* The frames of an item of call s, as the recorder of the canvas they were
\* painted on holds them.
SessionFrame(s, item) == [session |-> s, item |-> item]

\* Mutant of PushChunk: the chunks array is shared by the calls.
PushChunkShared(ss, s, data) ==
  IF data = {} THEN ss
  ELSE [k \in DOMAIN ss |-> [ss[k] EXCEPT !.chunks = Append(@, data)]]

\* if (e.data.size > 0) chunks.push(e.data), on the chunks array of call s.
PushChunk(ss, s, data) ==
  IF data = {} THEN ss ELSE [ss EXCEPT ![s].chunks = Append(@, data)]

\* Call s up to mediaRecorder.start(): the empty timeline is rejected.
SessionStart(s) ==
  /\ sessions[s].pc = "init"
  /\ sessions' =
       IF Len(sessions[s].timeline) = 0
         THEN [sessions EXCEPT ![s].pc = "rejected"]
         ELSE [sessions EXCEPT ![s].pc = "loop", ![s].recorder = "recording"]
  /\ UNCHANGED singleVars

\* Call s pauses its recorder and assigns the source of its next item.
SessionLoad(s) ==
  /\ sessions[s].pc = "loop"
  /\ sessions[s].idx <= Len(sessions[s].timeline)
  /\ sessions' = [sessions EXCEPT ![s].pc = "loading",
                                  ![s].recorder = "paused",
                                  ![s].currentTime = 0]
  /\ UNCHANGED singleVars

\* loadedmetadata and play() of call s: its recorder resumes.
SessionReady(s) ==
  /\ sessions[s].pc = "loading"
  /\ sessions' = [sessions EXCEPT ![s].pc = "playing",
                                  ![s].recorder = "recording"]
  /\ UNCHANGED singleVars

\* One frame callback of call s, d ticks of its clip after the one before.
SessionDrawFrame(s) ==
  /\ sessions[s].pc = "playing"
  /\ \E d \in 1..FrameInterval :
       LET me == sessions[s]
           item == me.timeline[me.idx]
           t == me.currentTime + d
       IN  IF t >= item.duration
             THEN sessions' = [sessions EXCEPT ![s].pc = "ended",
                                               ![s].currentTime = item.duration]
           ELSE IF StopCondition(t, item.cutDuration)
             THEN sessions' =
                    [sessions EXCEPT
                       ![s].currentTime = t,
                       ![s].processedDuration = @ + item.cutDuration,
                       ![s].idx = @ + 1,
                       ![s].pc = "loop"]
           ELSE sessions' =
                  [sessions EXCEPT
                     ![s].currentTime = t,
                     ![s].lastPaint = [item |-> me.idx, time |-> t],
                     ![s].data = @ \cup {SessionFrame(s, me.idx)},
                     ![s].progress =
                        ProgressValue(me.processedDuration + t,
                                      SumCut(me.timeline, Len(me.timeline)))]
  /\ UNCHANGED singleVars

\* After the loop of call s: mediaRecorder.stop().
SessionFinalize(s) ==
  /\ sessions[s].pc = "loop"
  /\ sessions[s].idx > Len(sessions[s].timeline)
  /\ sessions' = [sessions EXCEPT ![s].pc = "finalizing",
                                  ![s].recorder = "inactive"]
  /\ UNCHANGED singleVars

\* The recorder of call s delivers its data and fires onstop: the blob of the
\* call is made of its chunks and its progress is 1.
SessionStopEvent(s) ==
  /\ sessions[s].pc = "finalizing"
  /\ LET pushed == PushChunk(sessions, s, sessions[s].data) IN
       sessions' = [pushed EXCEPT ![s].data = {},
                                  ![s].blob = [made |-> TRUE,
                                               parts |-> pushed[s].chunks],
                                  ![s].progress = ProgressOne,
                                  ![s].pc = "resolved"]
  /\ UNCHANGED singleVars

SessionInit ==
  /\ timeline = <<>>
  /\ bgmFile = FALSE
  /\ useGPU = FALSE
  /\ supported = MimeTypes
  /\ videoSize = LandscapeSize
  /\ batch = BatchIdle
  /\ sessions \in [SessionIds -> { NewSession(tl) : tl \in SessionTimelines }]
  /\ app = AppUnmounted
  /\ upload = UploadIdle
  /\ player = PlayerUnmounted
  /\ Constructed

SessionNext ==
  \E s \in SessionIds :
    \/ SessionStart(s)
    \/ SessionLoad(s)
    \/ SessionReady(s)
    \/ SessionDrawFrame(s)
    \/ SessionFinalize(s)
    \/ SessionStopEvent(s)

SessionSpec == SessionInit /\ [][SessionNext]_vars

\* What call s would hold had it run alone and taken the same frames: the
\* frames of its chunks are its own.
OwnFrames(s) ==
  \A c \in 1..Len(sessions[s].chunks) :
    \A f \in sessions[s].chunks[c] : f.session = s

\* ---- processUploadedFiles -----------------------------------------------------
\* Every variable but upload.
notUploadVars ==
  <<timeline, bgmFile, useGPU, supported, cancelRequested, gainNode, videoSize,
    canvas, batch, sessions, app, player, pc, idx, processedDuration, audioCtx,
    envelopeT0, sourceStarts, sourceStartTime, mediaRecorder, chunks, blob,
    video, progress, ones, lastPaint, stopped, loadStarted, errorKind>>

\* The files a user can pick: a name, the duration of the video and whether
\* the browser can read its metadata.
UploadFiles ==
  [name : 1..MaxFiles, duration : (MaxDur - 1)..MaxDur, readable : BOOLEAN]

FileLists == UNION { [1..n -> UploadFiles] : n \in 0..MaxFiles }

\* The record pushed for the file at index i of the input.
ClipRecord(files, i) ==
  [file |-> i, name |-> files[i].name, duration |-> files[i].duration]

\* getVideoDuration resolves for files[i]: the clip record is pushed.
UploadFileLoaded ==
  /\ upload.status = "running"
  /\ upload.i <= Len(upload.files)
  /\ upload.files[upload.i].readable
  /\ upload' = [upload EXCEPT
                  !.clips = Append(@, ClipRecord(upload.files, upload.i)),
                  !.i = @ + 1]
  /\ UNCHANGED notUploadVars

\* Mutant of UploadFileSkipped: the rejection of getVideoDuration is not caught.
UploadFileRejects ==
  /\ upload.status = "running"
  /\ upload.i <= Len(upload.files)
  /\ ~upload.files[upload.i].readable
  /\ upload' = [upload EXCEPT !.status = "rejected"]
  /\ UNCHANGED notUploadVars

\* getVideoDuration rejects for files[i]: the catch block logs and the loop
\* goes on.
UploadFileSkipped ==
  /\ upload.status = "running"
  /\ upload.i <= Len(upload.files)
  /\ ~upload.files[upload.i].readable
  /\ upload' = [upload EXCEPT !.i = @ + 1]
  /\ UNCHANGED notUploadVars

\* return clips
UploadReturn ==
  /\ upload.status = "running"
  /\ upload.i > Len(upload.files)
  /\ upload' = [upload EXCEPT !.status = "returned"]
  /\ UNCHANGED notUploadVars

UploadInit ==
  /\ timeline = <<>>
  /\ bgmFile = FALSE
  /\ useGPU = FALSE
  /\ supported = MimeTypes
  /\ videoSize = LandscapeSize
  /\ batch = BatchIdle
  /\ sessions = NoSessions
  /\ app = AppUnmounted
  /\ player = PlayerUnmounted
  /\ upload \in { [status |-> "running", files |-> fs, i |-> 1,
                   clips |-> <<>>] : fs \in FileLists }
  /\ Constructed

UploadNext ==
  \/ UploadFileLoaded
  \/ UploadFileSkipped
  \/ UploadReturn

UploadSpec == UploadInit /\ [][UploadNext]_vars

\* The records of the readable files among the first n, in input order.
RECURSIVE ReadableClips(_, _)
ReadableClips(files, n) ==
  IF n = 0 THEN <<>>
  ELSE IF files[n].readable
    THEN Append(ReadableClips(files, n - 1), ClipRecord(files, n))
    ELSE ReadableClips(files, n - 1)

\* ---- the preview Player --------------------------------------------------------
\* Every variable but player.
notPlayerVars ==
  <<timeline, bgmFile, useGPU, supported, cancelRequested, gainNode, videoSize,
    canvas, batch, sessions, app, upload, pc, idx, processedDuration, audioCtx,
    envelopeT0, sourceStarts, sourceStartTime, mediaRecorder, chunks, blob,
    video, progress, ones, lastPaint, stopped, loadStarted, errorKind>>

\* The timelines the Player is given: one to MaxItems items, each with
\* 0 < cutDuration <= clip.duration.
PlayerTimelines ==
  { tl \in Timelines :
      /\ Len(tl) > 0
      /\ \A k \in 1..Len(tl) :
           0 < tl[k].cutDuration /\ tl[k].cutDuration <= tl[k].duration }

\* The Player after its mount effects: currentIndex is the first item
\* (1-based here), its source is assigned and, autoPlay being set, play() has
\* been called; the browser has let it play, or blocked it.  A play event is
\* handled by onPlay, which asks for the first checkTime callback (raf).
MountedPlayer(tl, allowed) ==
  [mounted |-> TRUE, timeline |-> tl, currentIndex |-> 1,
   video |-> [src |-> 1, currentTime |-> 0, paused |-> ~allowed,
              ended |-> FALSE],
   isPlaying |-> allowed, raf |-> allowed, onEnded |-> 0]

\* handleNext, then the effects of the render it causes: the next item's
\* source is assigned and played, and onPlay asks for a checkTime callback;
\* for the last item isPlaying is cleared and onEnded is called.
handleNext(p) ==
  IF p.currentIndex < Len(p.timeline)
    THEN [p EXCEPT !.currentIndex = @ + 1,
                   !.video = [src |-> p.currentIndex + 1, currentTime |-> 0,
                              paused |-> FALSE, ended |-> FALSE],
                   !.isPlaying = TRUE,
                   !.raf = TRUE]
    ELSE [p EXCEPT !.isPlaying = FALSE,
                   !.raf = FALSE,
                   !.onEnded = @ + 1]

\* The clip plays on by d ticks.  At its end the element pauses itself and
\* fires pause (onPause: the callback is cancelled) and ended, which has no
\* listener.  Before its end a pending checkTime callback runs.
PlayerFrame ==
  /\ player.mounted
  /\ ~player.video.paused
  /\ ~player.video.ended
  /\ \E d \in 1..FrameInterval :
       LET item == player.timeline[player.video.src]
           t == player.video.currentTime + d
       IN  IF t >= item.duration
             THEN player' = [player EXCEPT
                    !.video = [@ EXCEPT !.currentTime = item.duration,
                                        !.paused = TRUE, !.ended = TRUE],
                    !.isPlaying = FALSE,
                    !.raf = FALSE]
           ELSE IF player.raf /\ t >= player.timeline[player.currentIndex].cutDuration
             THEN player' =
                    handleNext([player EXCEPT !.video.currentTime = t])
           ELSE player' = [player EXCEPT !.video.currentTime = t]
  /\ UNCHANGED notPlayerVars

\* A click on the overlay: play() on a paused element (from the start when it
\* had ended) and onPlay, or pause() and onPause.
PlayerClick ==
  /\ player.mounted
  /\ player.onEnded < MaxOnEnded
  /\ player' =
       IF player.video.paused
         THEN [player EXCEPT
                 !.video = [@ EXCEPT !.paused = FALSE, !.ended = FALSE,
                              !.currentTime =
                                 IF player.video.ended THEN 0 ELSE @],
                 !.isPlaying = TRUE,
                 !.raf = TRUE]
         ELSE [player EXCEPT !.video.paused = TRUE,
                             !.isPlaying = FALSE,
                             !.raf = FALSE]
  /\ UNCHANGED notPlayerVars

PlayerInit ==
  /\ timeline = <<>>
  /\ bgmFile = FALSE
  /\ useGPU = FALSE
  /\ supported = MimeTypes
  /\ videoSize = LandscapeSize
  /\ batch = BatchIdle
  /\ sessions = NoSessions
  /\ app = AppUnmounted
  /\ upload = UploadIdle
  /\ player \in { MountedPlayer(tl, allowed) :
                    tl \in PlayerTimelines, allowed \in BOOLEAN }
  /\ Constructed

PlayerNext ==
  \/ PlayerFrame
  \/ PlayerClick

PlayerSpec == PlayerInit /\ [][PlayerNext]_vars

\* ---- the App component ----------------------------------------------------------
\* App holds clips, generatedSequences, selectedSequenceId, processingState,
\* isExporting and exportProgress.  The calls it awaits are followed as the set
\* of generations in flight (gens), the upload in flight (uploading) and the
\* render, which is the call of concatVideos modelled above: pc = "idle" when
\* there is none.  exportProgress is the last of 0 (set when the export starts
\* and when it settles) and the values passed to onProgress.
NoId == <<0, 0>>

MountedApp ==
  [mounted |-> TRUE, clips |-> FALSE, status |-> "idle", uploading |-> FALSE,
   gens |-> {}, generatedSequences |-> <<>>, selectedSequenceId |-> NoId,
   isExporting |-> FALSE]

\* A one-item timeline and the empty timeline that generateSingleSequence
\* builds when no entry of the planner names an uploaded clip.
AppTimelines == { <<>>, <<[duration |-> MaxDur, cutDuration |-> MaxDur - 1]>> }

\* The k-th sequence of generation g.
Sequence(g, k, tl, bgm) ==
  [id |-> <<g, k>>, timeline |-> tl, bgmFile |-> bgm]

\* What generation g can resolve with: one sequence, or two.
GenResults(g) ==
  { <<Sequence(g, 1, tl, bgm)>> : tl \in AppTimelines, bgm \in BOOLEAN }
    \cup { <<Sequence(g, 1, tl, FALSE), Sequence(g, 2, <<>>, FALSE)>> :
             tl \in AppTimelines }

\* generatedSequences.find(s => s.id === selectedSequenceId)
\*   || generatedSequences[0] || null, as an index (0: null)
ActiveIndex(a) ==
  LET found == { k \in 1..Len(a.generatedSequences) :
                   a.generatedSequences[k].id = a.selectedSequenceId }
  IN IF found # {} THEN CHOOSE k \in found : \A m \in found : k <= m
     ELSE IF Len(a.generatedSequences) > 0 THEN 1
     ELSE 0

\* setExportProgress: 0, or the last value passed to onProgress.
ExportProgress == IF progress = NoProgress THEN <<0, 1>> ELSE progress

\* The locals of a call of concatVideos are created anew (position "init"), or
\* dropped when the call is over ("idle").
NewCall(position) ==
  /\ canvas' = NoCanvas
  /\ cancelRequested' = FALSE
  /\ gainNode' = [events |-> <<>>, time |-> -1, value |-> NoGain]
  /\ pc' = position
  /\ idx' = 1
  /\ processedDuration' = 0
  /\ audioCtx' = [state |-> "none", currentTime |-> 0, edges |-> {}]
  /\ envelopeT0' = -1
  /\ sourceStarts' = 0
  /\ sourceStartTime' = -1
  /\ mediaRecorder' = [state |-> "none", data |-> 0, onstop |-> FALSE,
                      stopQueued |-> FALSE, error |-> FALSE,
                      mimeType |-> "none", tracks |-> {}]
  /\ chunks' = <<>>
  /\ blob' = NoBlob
  /\ video' = [src |-> 0, paused |-> TRUE, ended |-> FALSE, currentTime |-> 0,
              delivered |-> FALSE, callback |-> FALSE, muted |-> FALSE]
  /\ progress' = NoProgress
  /\ ones' = 0
  /\ lastPaint' = NoPaint
  /\ stopped' = {}
  /\ loadStarted' = {}
  /\ errorKind' = "none"

\* The variables that App and its render leave alone.
appFixedVars == <<supported, videoSize, batch, sessions, upload, player, useGPU>>

\* The variables of the render.
callVars ==
  <<timeline, bgmFile, cancelRequested, gainNode, canvas, pc, idx,
    processedDuration, audioCtx, envelopeT0, sourceStarts, sourceStartTime,
    mediaRecorder, chunks, blob, video, progress, ones, lastPaint, stopped,
    loadStarted, errorKind>>

\* handleUploadVideos up to its await.  The uploader is given
\* isLoading = (status === 'analyzing') and nothing else.
UploadVideos ==
  /\ app.mounted
  /\ app.status # "analyzing"
  /\ ~app.uploading
  /\ app' = [app EXCEPT !.status = "analyzing", !.uploading = TRUE]
  /\ UNCHANGED <<appFixedVars, callVars>>

\* processUploadedFiles has resolved: setClips, status idle.
UploadVideosDone ==
  /\ app.mounted
  /\ app.uploading
  /\ app' = [app EXCEPT !.clips = TRUE, !.status = "idle",
                        !.uploading = FALSE]
  /\ UNCHANGED <<appFixedVars, callVars>>

\* handleClear: its button is shown while there are clips.
handleClear ==
  /\ app.mounted
  /\ app.clips
  /\ app' = [app EXCEPT !.clips = FALSE, !.generatedSequences = <<>>,
                        !.status = "idle"]
  /\ UNCHANGED <<appFixedVars, callVars>>

\* disabled={status === 'generating' || status === 'analyzing' || isExporting}
GenerateDisabled(a) ==
  a.status = "generating" \/ a.status = "analyzing" \/ a.isExporting

\* handleGenerate up to its await; the button is shown while there are clips.
handleGenerate ==
  /\ app.mounted
  /\ app.clips
  /\ ~GenerateDisabled(app)
  /\ \E g \in (1..MaxGens) \ app.gens :
       app' = [app EXCEPT !.status = "generating",
                          !.generatedSequences = <<>>,
                          !.selectedSequenceId = NoId,
                          !.gens = @ \cup {g}]
  /\ UNCHANGED <<appFixedVars, callVars>>

\* The onProgress callback of a generation in flight.
GenerateProgress ==
  /\ app.mounted
  /\ app.gens # {}
  /\ app.status # "generating"
  /\ app' = [app EXCEPT !.status = "generating"]
  /\ UNCHANGED <<appFixedVars, callVars>>

\* generateBatchSequences has resolved.
GenerateDone ==
  /\ app.mounted
  /\ \E g \in app.gens : \E results \in GenResults(g) :
       app' = [app EXCEPT !.generatedSequences = results,
                          !.selectedSequenceId = results[1].id,
                          !.status = "complete",
                          !.gens = @ \ {g}]
  /\ UNCHANGED <<appFixedVars, callVars>>

\* generateBatchSequences has rejected.
GenerateFailed ==
  /\ app.mounted
  /\ \E g \in app.gens :
       app' = [app EXCEPT !.status = "error", !.gens = @ \ {g}]
  /\ UNCHANGED <<appFixedVars, callVars>>

\* A click on the tab of another sequence.
SelectSequence ==
  /\ app.mounted
  /\ Len(app.generatedSequences) > 1
  /\ \E k \in 1..Len(app.generatedSequences) :
       /\ app.generatedSequences[k].id # app.selectedSequenceId
       /\ app' = [app EXCEPT
                    !.selectedSequenceId = app.generatedSequences[k].id]
  /\ UNCHANGED <<appFixedVars, callVars>>

\* Mutant of ExportGuard: no test of the timeline.
ExportGuardNone(seq) == TRUE

\* if (!activeSequence?.timeline.length) return
ExportGuard(seq) == Len(seq.timeline) > 0

\* handleDownloadMerged up to its await: the button is shown while there is an
\* active sequence and disabled while isExporting.
handleDownloadMerged ==
  /\ app.mounted
  /\ ActiveIndex(app) > 0
  /\ ~app.isExporting
  /\ LET seq == app.generatedSequences[ActiveIndex(app)] IN
       /\ ExportGuard(seq)
       /\ timeline' = seq.timeline
       /\ bgmFile' = seq.bgmFile
  /\ app' = [app EXCEPT !.isExporting = TRUE]
  /\ NewCall("init")
  /\ UNCHANGED appFixedVars

\* concatVideos has settled: the download on success, the alert on failure and
\* the finally block; the locals of the call are gone.
ExportSettled ==
  /\ app.mounted
  /\ app.isExporting
  /\ pc \in {"resolved", "rejected"}
  /\ app' = [app EXCEPT !.isExporting = FALSE]
  /\ timeline' = <<>>
  /\ bgmFile' = FALSE
  /\ NewCall("idle")
  /\ UNCHANGED appFixedVars

AppInit ==
  /\ timeline = <<>>
  /\ bgmFile = FALSE
  /\ useGPU = FALSE
  /\ supported = MimeTypes
  /\ videoSize = LandscapeSize
  /\ batch = BatchIdle
  /\ sessions = NoSessions
  /\ upload = UploadIdle
  /\ player = PlayerUnmounted
  /\ app = MountedApp
  /\ ConstructedAt("idle")

AppNext ==
  \/ UploadVideos
  \/ UploadVideosDone
  \/ handleClear
  \/ handleGenerate
  \/ GenerateProgress
  \/ GenerateDone
  \/ GenerateFailed
  \/ SelectSequence
  \/ handleDownloadMerged
  \/ ExportSettled
  \/ Next

AppSpec == AppInit /\ [][AppNext]_vars

\* concatVideos is exported: a caller other than App calls it with any
\* timeline.
DirectInit ==
  /\ timeline \in AppTimelines
  /\ bgmFile = FALSE
  /\ useGPU = FALSE
  /\ supported = MimeTypes
  /\ videoSize = LandscapeSize
  /\ batch = BatchIdle
  /\ sessions = NoSessions
  /\ upload = UploadIdle
  /\ player = PlayerUnmounted
  /\ app = AppUnmounted
  /\ Constructed

\* The callers of concatVideos: App, or another caller.
CallSpec == (AppInit \/ DirectInit) /\ [][AppNext]_vars

\* ---- properties ------------------------------------------------------------
ValidCut(item) == 0 < item.cutDuration /\ item.cutDuration <= item.duration
Settled == pc \in {"resolved", "rejected"}

\* C1: an item with 0 < cutDuration <= clip.duration that is playing always
\* has its stop condition still to fire: while concatVideos awaits the item a
\* frame callback is pending on a clip that has not ended, so the item cannot
\* stay in Playing forever (also when cutDuration equals clip.duration).
C1_StopConditionFires ==
  (pc = "playing" /\ ValidCut(timeline[idx]))
    => (video.callback /\ ~video.ended)

C3_ReleasedOnEveryExit ==
  (Settled /\ errorKind # "empty") =>
    /\ audioCtx.state = "closed"
    /\ mediaRecorder.state \in {"none", "inactive"}
    /\ video.paused

C5_ProgressNonDecreasing ==
  [][progress' # progress =>
       /\ InUnit(progress')
       /\ progress # NoProgress => Leq(progress, progress')
       /\ pc' # "resolved" => Leq(progress', <<ProgressCap100, 100>>)]_vars

\* C6: onProgress(1) is called exactly once in a render that resolves, as its
\* last progress callback and with the recorder stopped; a render that has not
\* resolved (playing, hung or rejected) has never reported 1.
C6_OneOnlyAtFinalization ==
  /\ pc = "resolved" => (ones = 1 /\ IsOne(progress))
  /\ pc # "resolved" => (ones = 0 /\ ~IsOne(progress))
  /\ ones > 0 => (mediaRecorder.state = "inactive" /\ ~mediaRecorder.stopQueued)

\* C6 witness: a two-item render that painted frames has resolved and
\* reported 1 once.
C6_Witness ==
  /\ pc = "resolved"
  /\ ones = 1
  /\ Len(timeline) = 2
  /\ lastPaint.item = 2

C8_ItemsInOrder ==
  [][/\ lastPaint' # lastPaint =>
          /\ lastPaint'.item = idx'
          /\ pc' = "playing"
          /\ idx' \notin stopped'
          /\ stopped' = 1..(idx' - 1)
     /\ stopped' # stopped =>
          /\ idx \notin stopped
          /\ stopped' = stopped \cup {idx}
          /\ idx' = idx + 1
     /\ loadStarted' # loadStarted =>
          /\ idx \notin loadStarted
          /\ loadStarted' = loadStarted \cup {idx}
          /\ stopped = 1..(idx - 1)
     /\ idx' >= idx]_vars

\* C8 witness: item 2 is being painted after the stop condition of item 1.
C8_Witness ==
  /\ lastPaint.item = 2
  /\ stopped = {1}
  /\ pc = "playing"

\* C9: with the audio source started, from the first painted frame until the
\* loop has ended the audio context is running.
C9_AudioNeverSuspended ==
  (sourceStarts > 0 /\ lastPaint # NoPaint
     /\ pc \in {"playing", "loop", "suspending", "loading", "starting"})
    => audioCtx.state = "running"

\* C10: the audio source is started at most once, and in a render with a
\* background track, when the first frame is painted the source has been
\* started once and the audio clock still shows both the time at which the
\* source was started and the time at which the gain envelope starts.
C10_AudioZeroAtFirstFrame ==
  [][/\ sourceStarts' <= 1
     /\ (bgmFile /\ lastPaint = NoPaint /\ lastPaint' # NoPaint) =>
          /\ sourceStarts = 1
          /\ sourceStartTime = audioCtx.currentTime
          /\ envelopeT0 = audioCtx.currentTime]_vars

\* C11: when totalDuration >= 2 * fadeDuration the gain read at envelope time
\* t is t / fadeDuration on [0, fadeDuration], 1 on [fadeDuration,
\* totalDuration - fadeDuration] and (totalDuration - t) / fadeDuration on
\* [totalDuration - fadeDuration, totalDuration]; the scheduled fade-in never
\* decreases and the fade-out never increases; with fadeDuration 1.5 s and
\* totalDuration 10 s (3 and 20 ticks) the gain is 0, 1, 1, 0 at 0, 1.5, 8.5
\* and 10 s.
C11_EnvelopeShape ==
  (gainNode.time >= 0 /\ totalDuration >= 2 * fadeDuration) =>
    LET t == gainNode.time
        g == gainNode.value
        T == totalDuration
        ev == gainNode.events
    IN /\ g[2] > 0
       /\ (t <= fadeDuration) => (g[1] * fadeDuration = t * g[2])
       /\ (fadeDuration <= t /\ t <= T - fadeDuration) => (g[1] = g[2])
       /\ (T - fadeDuration <= t) => (g[1] * fadeDuration = (T - t) * g[2])
       /\ \A a, b \in 0..fadeDuration :
            (a <= b) => Leq(ValueAt(ev, a), ValueAt(ev, b))
       /\ \A a, b \in (T - fadeDuration)..T :
            (a <= b) => Leq(ValueAt(ev, b), ValueAt(ev, a))
       /\ (T = 20 /\ fadeDuration = 3) =>
            /\ (t \in {0, 20}) => (g[1] = 0)
            /\ (t \in {3, 17}) => (g[1] = g[2])

\* The gain is read as 1 at 8.5 s of a 10 s envelope, where the fade-out starts.
C11_Witness ==
  /\ totalDuration = 20
  /\ gainNode.time = 17
  /\ gainNode.value[2] > 0
  /\ gainNode.value[1] = gainNode.value[2]

\* C12: the fades last min(1.5 s, totalDuration / 2): for every timeline, also
\* one shorter than 3 s, the four envelope events are accepted, their times are
\* non-negative and non-decreasing in the order of the calls, and the fade-in
\* ends no later than the fade-out starts.
C12_FadeClamped ==
  (pc # "init" /\ Len(timeline) > 0) =>
    LET ev == gainNode.events
    IN /\ errorKind # "range"
       /\ Len(ev) = 4
       /\ \A i \in 1..Len(ev) : ev[i].time >= 0
       /\ ev[2].type = "ramp" /\ ev[2].value = 1
       /\ ev[3].type = "set" /\ ev[3].value = 1
       /\ ev[2].time <= ev[3].time
       /\ 2 * (ev[2].time - ev[1].time)
            = (IF 2 * fadeDuration < totalDuration
                 THEN 2 * fadeDuration ELSE totalDuration)

\* C13: a render without a background track hands the encoder a stream that
\* holds the canvas video track only, no audio track.
C13_NoAudioTrackWithoutBgm ==
  (~bgmFile /\ mediaRecorder.state # "none") =>
    \A tr \in mediaRecorder.tracks : tr.kind = "video"

\* C14: whenever the video element has a clip assigned it is muted; every audio
\* track of the encoded stream is the one of the destination node, which is fed
\* by the gain node only, which is fed by the background source only.
C14_OnlyBgmAudio ==
  /\ (video.src # 0) => video.muted
  /\ \A tr \in mediaRecorder.tracks :
       (tr.kind = "audio") => (tr.origin = "dest")
  /\ \A e \in audioCtx.edges :
       /\ (e[2] = "dest") => (e[1] = "gainNode")
       /\ (e[2] = "gainNode") => (e[1] = "source")
       /\ e[1] \in {"gainNode", "source"}

\* A frame of a clip is painted and recorded while the background source feeds
\* the gain node.
C14_Witness ==
  /\ lastPaint.item > 0
  /\ video.src # 0
  /\ ~video.paused
  /\ mediaRecorder.state = "recording"
  /\ <<"source", "gainNode">> \in audioCtx.edges

\* C15: when decoding the background track fails the call is rejected with the
\* decoder's error; it cannot be the error of a clip load or of the encoder, as
\* no recorder has been created and no clip load started; no frame is painted,
\* no source is started and no payload is returned.
C15_DecodeFailureAborts ==
  (errorKind = "decode") =>
    /\ pc = "rejected"
    /\ mediaRecorder.state = "none"
    /\ loadStarted = {}
    /\ lastPaint = NoPaint
    /\ sourceStarts = 0
    /\ blob = NoBlob

\* The decoding of a supplied background track has failed.
C15_Witness ==
  /\ bgmFile
  /\ errorKind = "decode"
  /\ pc = "rejected"

\* C16: the mime type given to the recorder is h264 when useGPU is set and
\* h264 is supported; otherwise vp9 when vp9 is supported; it is never h264
\* when useGPU is not set; the recorder only ever gets a supported mime type.
C16_CodecChoice ==
  (mediaRecorder.mimeType # "none") =>
    /\ (useGPU /\ MimeH264 \in supported)
         => (mediaRecorder.mimeType = MimeH264)
    /\ (~(useGPU /\ MimeH264 \in supported) /\ MimeVP9 \in supported)
         => (mediaRecorder.mimeType = MimeVP9)
    /\ (~useGPU) => (mediaRecorder.mimeType # MimeH264)
    /\ mediaRecorder.mimeType \in supported

\* A recorder with the accelerated codec records a painted frame on a runtime
\* that supports vp9 as well.
C16_Witness ==
  /\ useGPU
  /\ MimeVP9 \in supported
  /\ mediaRecorder.mimeType = MimeH264
  /\ mediaRecorder.state = "recording"
  /\ lastPaint.item > 0

\* C17: on a runtime that supports none of the mime types no recorder is
\* created or started, no clip is loaded and no frame is painted; the call does
\* not get past the creation of the recorder, where it is rejected with the
\* unsupported-codec error unless an earlier step has already rejected it.
C17_UnsupportedCodecFails ==
  (supported \cap MimeTypes = {}) =>
    /\ mediaRecorder.state = "none"
    /\ loadStarted = {}
    /\ lastPaint = NoPaint
    /\ blob = NoBlob
    /\ pc \in {"init", "decoding", "setup", "rejected"}
    /\ (pc = "rejected" /\ errorKind \notin {"empty", "range", "decode"})
         => (errorKind = "codec")

\* The call is rejected with the unsupported-codec error.
C17_Witness ==
  /\ supported \cap MimeTypes = {}
  /\ pc = "rejected"
  /\ errorKind = "codec"
  /\ audioCtx.state = "running"

\* C18: when the stop condition of item i has fired and item i+1 exists, the
\* load of item i+1 has been started before (it is loaded, or what is left of
\* its load is all the switch waits for): both cases of the claim need the
\* source of item i+1 to have been assigned while item i was playing.
C18_NextLoadStartedAtSwitch ==
  \A i \in stopped :
    (i < Len(timeline) /\ timeline[i].cutDuration > 0)
      => ((i + 1) \in loadStarted)

\* C19: once the encoder has failed the call does not resolve, returns no
\* payload and does not hang: it is never left waiting for a stop event that
\* no recorder will send.
C19_EncoderFailureRejects ==
  mediaRecorder.error =>
    /\ pc # "resolved"
    /\ blob = NoBlob
    /\ ~(pc = "finalizing" /\ ~mediaRecorder.stopQueued)

\* C20: after a cancel request no further frame is painted, the recorder takes
\* no further frame, no progress is reported and no blob is resolved.
C20_CancelStopsRender ==
  [][cancelRequested =>
       /\ lastPaint' = lastPaint
       /\ mediaRecorder'.data = mediaRecorder.data
       /\ progress' = progress
       /\ blob' = blob]_vars

\* C21: the recorder records no time in which no clip frame is advancing: while
\* the loop waits for the audio context to suspend, for a clip to load, or for
\* the playback of a loaded clip to start, no time passes with the recorder in
\* the recording state (time is read off the audio clock).
C21_RecordsOnlyPlayback ==
  [][(/\ audioCtx'.currentTime # audioCtx.currentTime
      /\ pc \in {"suspending", "loading", "starting"})
       => (mediaRecorder.state # "recording")]_vars

\* C22: for every positive clip size the rectangle drawn by a painted frame
\* lies inside the 1080 x 1920 canvas, is centered, has the clip's aspect ratio
\* and spans the canvas in width or in height; the frame first fills the whole
\* canvas.
C22_Letterbox ==
  (lastPaint.item > 0) =>
    LET r == canvas.drawn
        f == canvas.filled
    IN /\ f.x[1] = 0 /\ f.y[1] = 0
       /\ f.w[1] = CanvasWidth * f.w[2] /\ f.h[1] = CanvasHeight * f.h[2]
       /\ r.w[1] > 0 /\ r.h[1] > 0
       /\ r.x[1] >= 0 /\ r.y[1] >= 0
       /\ r.x[1] * r.w[2] + r.w[1] * r.x[2] <= CanvasWidth * r.x[2] * r.w[2]
       /\ r.y[1] * r.h[2] + r.h[1] * r.y[2] <= CanvasHeight * r.y[2] * r.h[2]
       /\ 2 * r.x[1] * r.w[2] + r.w[1] * r.x[2]
            = CanvasWidth * r.x[2] * r.w[2]
       /\ 2 * r.y[1] * r.h[2] + r.h[1] * r.y[2]
            = CanvasHeight * r.y[2] * r.h[2]
       /\ r.w[1] * r.h[2] * videoSize[2] = r.h[1] * r.w[2] * videoSize[1]
       /\ (r.w[1] = CanvasWidth * r.w[2]) \/ (r.h[1] = CanvasHeight * r.h[2])

\* A frame of a 16 x 9 clip is painted with bars above and below.
C22_Witness ==
  /\ lastPaint.item > 0
  /\ videoSize = <<16, 9>>
  /\ canvas.drawn.y[1] > 0
  /\ canvas.drawn.x[1] = 0

\* C23: every item of a timeline built by generateSingleSequence has
\* 0 < cutDuration <= clip.duration, whatever cutDuration the planner returned.
C23_CutClampedAtIngestion ==
  \A k \in 1..Len(batch.sequence.timeline) :
    ValidCut(batch.sequence.timeline[k])

\* C24: a batch that returns, returns one sequence per BGM file, in the order of
\* the files and each with its own file, and one sequence without a BGM file
\* when no file was supplied.
C24_OneSequencePerBgm ==
  (batch.status = "returned") =>
    LET files == batch.bgmFiles
        out == batch.returned
    IN IF Len(files) = 0
         THEN Len(out) = 1 /\ out[1].bgmFile = 0
         ELSE /\ Len(out) = Len(files)
              /\ \A k \in 1..Len(files) : out[k].bgmFile = files[k]

\* A batch of two BGM files, the second given first, has returned.
C24_Witness ==
  /\ batch.status = "returned"
  /\ batch.bgmFiles = <<2, 1>>
  /\ Len(batch.returned) = 2

\* C25: no step of a render, successful or failed, changes the timeline or one
\* of its items.
C25_InputNotMutated ==
  [][timeline' = timeline]_vars

\* A render of two items has resolved.
C25_Witness ==
  /\ pc = "resolved"
  /\ Len(timeline) = 2
  /\ blob # NoBlob

\* C26: whenever item i is playing and item i+1 exists, the source of item i+1
\* has already been assigned to a handle.
C26_NextLoadStartedWhilePlaying ==
  (pc = "playing" /\ idx < Len(timeline)) => ((idx + 1) \in loadStarted)

\* C27: while a source assigned to the video element has not fired its
\* loadedmetadata event, no step paints the canvas or reports progress.
C27_NoPaintWhileLoading ==
  [][(pc = "loading") =>
       /\ lastPaint' = lastPaint
       /\ canvas'.drawn = canvas.drawn
       /\ canvas'.filled = canvas.filled
       /\ progress' = progress]_vars

\* The second item is loading after frames of the first have been painted, and
\* no frame callback is pending.
C27_Witness ==
  /\ pc = "loading"
  /\ idx = 2
  /\ lastPaint.item = 1
  /\ ~video.callback

\* C28: processedDuration is the sum of cutDuration over the items before the
\* current one, which are exactly the items whose stop condition has fired; at
\* finalization it is totalDuration.
C28_ProcessedDuration ==
  /\ processedDuration = SumCut(timeline, idx - 1)
  /\ stopped = 1..(idx - 1)
  /\ (pc \in {"finalizing", "resolved"}) => (processedDuration = totalDuration)

\* A render of two items, the first cut short, has resolved.
C28_Witness ==
  /\ pc = "resolved"
  /\ Len(timeline) = 2
  /\ timeline[1].cutDuration < timeline[1].duration
  /\ processedDuration = totalDuration

C30_SessionsIndependent ==
  /\ [][\A s \in SessionIds :
          (sessions'[s] # sessions[s]) =>
            (\A r \in SessionIds \ {s} : sessions'[r] = sessions[r])]_vars
  /\ [](\A s \in SessionIds :
          LET me == sessions[s] IN
          /\ OwnFrames(s)
          /\ \A f \in me.data : f.session = s
          /\ me.blob.made =>
               /\ me.pc = "resolved"
               /\ me.blob.parts = me.chunks
               /\ Len(me.chunks) <= 1
          /\ (me.pc \in {"playing", "ended"} /\ me.lastPaint.item = me.idx) =>
               (me.progress =
                  ProgressValue(me.processedDuration + me.lastPaint.time,
                                SumCut(me.timeline, Len(me.timeline))))
          /\ (me.pc = "resolved") => (me.progress = ProgressOne))

\* Both calls have resolved a blob with frames, after running interleaved: the
\* first call finished while the second was still playing its first item.
C30_Witness ==
  /\ sessions[1].pc = "resolved"
  /\ sessions[2].pc = "playing"
  /\ sessions[1].blob.made
  /\ sessions[1].blob.parts # <<>>
  /\ sessions[2].data # {}

\* C32: the timeline generateSingleSequence builds holds, in the planner's
\* order, one item for each planner entry naming an uploaded clip and nothing
\* else, each with the cutDuration clamped to the clip's duration, and the
\* sequence's totalDuration is the sum of the items' cutDuration, which is the
\* denominator concatVideos computes from the same timeline.
C32_TimelineFromPlan ==
  (batch.status = "generated") =>
    LET plan == batch.plan
        tl == batch.sequence.timeline
    IN /\ Len(tl) = Cardinality(KnownEntries(plan))
       /\ \A j \in 1..Len(tl) :
            LET e == plan[KnownEntry(plan, j)] IN
            /\ tl[j].clip = e.clipId
            /\ tl[j].duration = Clips[FindClip(e.clipId)].duration
            /\ tl[j].cutDuration =
                 (IF e.cutDuration <= tl[j].duration
                    THEN e.cutDuration ELSE tl[j].duration)
       /\ batch.sequence.totalDuration = SumCut(tl, Len(tl))

\* An answer whose first entry names no clip and whose second is longer than
\* its clip: one item, clamped.
C32_Witness ==
  /\ batch.status = "generated"
  /\ Len(batch.plan) = 2
  /\ batch.plan[1].clipId = 0
  /\ batch.plan[2] = [clipId |-> 1, cutDuration |-> 4]
  /\ Len(batch.sequence.timeline) = 1
  /\ batch.sequence.totalDuration = 2

\* C33: the usage counters are zero before the first sequence and grow, when a
\* sequence is pushed, by the number of its items playing each clip; the avoid
\* list of a generation is the set of clips whose counter is at least 2, and
\* is empty for the first sequence.
C33_UsageAndAvoidList ==
  /\ []((batch.i = 0 /\ batch.status \in {"running", "generated"}) =>
          /\ \A id \in ClipIds : batch.globalUsageCount[id] = 0
          /\ batch.overusedClipIds = {})
  /\ [][(batch'.globalUsageCount # batch.globalUsageCount) =>
          /\ batch.status = "generated"
          /\ batch'.i = batch.i + 1
          /\ \A id \in ClipIds :
               batch'.globalUsageCount[id] =
                 batch.globalUsageCount[id]
                   + Occurrences(batch.sequence.timeline, id)]_vars
  /\ [][(batch.status = "running" /\ batch'.status = "generated") =>
          (batch'.overusedClipIds =
             { id \in ClipIds : batch.globalUsageCount[id] >= 2 })]_vars

\* The second generation of a batch avoids clip 1, which the first sequence
\* used twice, and not clip 2, which it did not use.
C33_Witness ==
  /\ batch.status = "generated"
  /\ batch.i = 1
  /\ batch.globalUsageCount[1] = 2
  /\ batch.globalUsageCount[2] = 0
  /\ batch.overusedClipIds = {1}

\* C35: processUploadedFiles never rejects; the clips it has collected are the
\* records (name, duration) of the files read so far whose metadata loaded, in
\* the order of the input, the failing files being skipped.
C35_UploadSkipsFailures ==
  /\ upload.status # "rejected"
  /\ upload.clips = ReadableClips(upload.files, upload.i - 1)
  /\ (upload.status = "returned") => (upload.i = Len(upload.files) + 1)

\* An upload whose first file failed and whose second loaded has returned.
C35_Witness ==
  /\ upload.status = "returned"
  /\ Len(upload.files) = 2
  /\ ~upload.files[1].readable
  /\ upload.files[2].readable
  /\ Len(upload.clips) = 1

\* C36: the Player calls onEnded at most once, the clip of the last item is
\* not playing once onEnded has been called, and a clip is seen ended only when
\* it is the last item's and onEnded has been called (an item whose clip ends
\* naturally still advances).
C36_PlayerEnforcesCut ==
  player.mounted =>
    /\ player.onEnded <= 1
    /\ (player.onEnded >= 1) => player.video.paused
    /\ player.video.ended =>
         (player.currentIndex = Len(player.timeline) /\ player.onEnded >= 1)

\* C31: isExporting is true exactly while a call of concatVideos is in flight
\* and exportProgress is 0 otherwise, and while it is true no generation is
\* started and no generation installs its sequences.
C31_SingleExport ==
  /\ [](app.mounted =>
          /\ app.isExporting <=> (pc # "idle")
          /\ (~app.isExporting) => (ExportProgress = <<0, 1>>))
  /\ [][(app.mounted /\ app.isExporting) =>
          /\ app'.gens \subseteq app.gens
          /\ (app'.gens # app.gens) =>
               (app'.generatedSequences = app.generatedSequences)]_vars

\* C34: when a generation fails, which sets the error status, App holds no
\* generated sequence.
C34_FailedBatchLeavesNothing ==
  [][(app.mounted /\ app'.gens # app.gens /\ app'.gens \subseteq app.gens
        /\ app'.status = "error") =>
       (app'.generatedSequences = <<>>)]_vars

\* C37: a call of concatVideos with an empty timeline is rejected with no
\* canvas, audio context, recorder or video element created and no progress
\* reported, and it is not a call of App: handleDownloadMerged calls
\* concatVideos with a timeline that is not empty.
C37_EmptyTimelineRejected ==
  /\ [](errorKind = "empty" =>
          /\ ~app.mounted
          /\ pc = "rejected"
          /\ canvas = NoCanvas
          /\ audioCtx.state = "none"
          /\ audioCtx.edges = {}
          /\ mediaRecorder.state = "none"
          /\ video.src = 0
          /\ loadStarted = {}
          /\ progress = NoProgress
          /\ ones = 0
          /\ blob = NoBlob)
  /\ [][(app.mounted /\ pc = "idle" /\ pc' = "init") =>
          (Len(timeline') > 0)]_vars

\* A call with the empty timeline has been rejected.
C37_Witness ==
  /\ errorKind = "empty"
  /\ pc = "rejected"
  /\ Len(timeline) = 0

TypeOK ==
  /\ pc \in {"idle", "init", "decoding", "setup", "loop", "suspending", "loading",
             "starting", "playing", "finalizing", "resolved", "rejected"}
  /\ idx \in 1..(Len(timeline) + 1)
  /\ audioCtx.state \in {"none", "running", "suspended", "closed"}
  /\ mediaRecorder.state \in {"none", "recording", "paused", "inactive"}
  /\ stopped \subseteq 1..Len(timeline)
====
